---------------------------- MODULE Spec2Model ----------------------------
(***************************************************************************)
(* A model of pdf_extractor.py: the PDFExtractor class (construction, the  *)
(* five single-method extractors, get_pdf_metadata, extract_all_data and   *)
(* save_results) and the command-line entry point main().  A run is one    *)
(* invocation of main() after its arguments are parsed, or one direct call *)
(* of an extractor method by a client script (as example_usage.py does).   *)
(* The wrapped libraries are modelled by their observable outcome: the     *)
(* value they return for a page, or an exception.                          *)
(***************************************************************************)
EXTENDS Integers, Sequences, FiniteSets, TLC

\* ------------------------------------------------------------------ bounds
\* The largest number of pages of an input document.
MaxPages == 2

\* The largest number of failures (exceptions raised by a backend, or by the
\* file system while saving) in one run.
MaxFaults == 2

\* ------------------------------------------------------------ python values
\* Python's None, for the values the libraries may return in place of a string.
PyNone == "<None>"

\* Python truthiness of a string-or-None value: `if page_text:`, `if cell`.
Truthy(v) == v # PyNone /\ v # ""

\* ---------------------------------------------------------------- documents
\* pdfplumber tables: a table is a sequence of rows, a row a sequence of cells.
Table1 == << <<"h", PyNone>>, <<"", "x">> >>

\* tabula tables (DataFrames): a header row and data rows.
Frame1 == [columns |-> <<"c1", "c2">>, rows |-> << <<"1", "2">> >>]

\* What the backends yield for one page: PyPDF2's page.extract_text(),
\* pdfplumber's page.extract_text() and page.extract_tables(),
\* pytesseract.image_to_string() of the page's image, and the tables tabula
\* finds on the page.
TextPage == [text |-> "a", plumb |-> "a", ocr |-> "a",
             tables |-> <<Table1>>, frames |-> <<Frame1>>]
ScanPage == [text |-> "", plumb |-> PyNone, ocr |-> "s",
             tables |-> <<>>, frames |-> <<>>]
PageKinds == {TextPage, ScanPage}

\* The document information dictionary (pdf_reader.metadata): absent, or a
\* mapping holding some of the descriptive fields.
InfoKeys == <<"/Title", "/Author", "/Subject", "/Creator", "/Producer", "/CreationDate">>
NoInfo == [present |-> FALSE, fields |-> [k \in {} |-> ""]]
PartInfo == [present |-> TRUE,
             fields |-> [k \in {"/Title", "/Producer"} |->
                           IF k = "/Title" THEN "Report" ELSE "LaTeX"]]

PageSeqs == UNION {[1..n -> PageKinds] : n \in 0..MaxPages}

\* The input documents: one that has no page with a text layer (a pure scan, or
\* no page at all) has no information dictionary, the others have one.
InfoOf(pages) == IF \E i \in 1..Len(pages) : pages[i] = TextPage THEN PartInfo ELSE NoInfo
Documents == {[pages |-> p, info |-> InfoOf(p)] : p \in PageSeqs}

\* ------------------------------------------------------------- environment
\* Directories are paths, a path a sequence of components below the working
\* directory <<>>, which always exists.
DirA == <<"a">>
DirAB == <<"a", "b">>
Parent(path) == SubSeq(path, 1, Len(path) - 1)
DirExists(ds, path) == path = <<>> \/ path \in ds

\* args.output_dir: not given (None), or a path; the empty path is "".
NoOutputDir == [given |-> FALSE, path |-> <<>>]
OutputDirs == {NoOutputDir} \cup {[given |-> TRUE, path |-> p] : p \in {<<>>, DirAB}}

\* `if output_dir:` -- None and the empty string are both false.
OutputDirTruthy(od) == od.given /\ od.path # <<>>

\* The choices of --method, and the extractor each single choice runs.
MethodChoices == {"pypdf2", "pdfplumber", "tabula", "ocr", "all"}
ExtractorNames == {"extract_text_pypdf2", "extract_text_pdfplumber",
                   "extract_tables_pdfplumber", "extract_tables_tabula",
                   "extract_text_ocr"}
MethodExtractor(m) ==
  CASE m = "pypdf2" -> "extract_text_pypdf2"
    [] m = "pdfplumber" -> "extract_text_pdfplumber"
    [] m = "tabula" -> "extract_tables_tabula"
    [] m = "ocr" -> "extract_text_ocr"
    [] OTHER -> m

\* The availability flag each extractor tests first.
BackendOf(fn) ==
  CASE fn = "extract_text_pypdf2" -> "pypdf2"
    [] fn = "extract_text_pdfplumber" -> "pdfplumber"
    [] fn = "extract_tables_pdfplumber" -> "pdfplumber"
    [] fn = "extract_tables_tabula" -> "tabula"
    [] fn = "extract_text_ocr" -> "ocr"


\* ------------------------------------------------------- formatting helpers
\* f"\n--- Page {page_num + 1} ---\n", the marker of PyPDF2 and pdfplumber text.
PageMarker(k) == "\n--- Page " \o ToString(k) \o " ---\n"

\* f"\n--- Page {page_num + 1} (OCR) ---\n", the marker of OCR text.
OcrMarker(k) == "\n--- Page " \o ToString(k) \o " (OCR) ---\n"

\* sep.join(items) for a sequence of strings.
RECURSIVE Join(_, _)
Join(items, sep) ==
  IF Len(items) = 0 THEN ""
  ELSE IF Len(items) = 1 THEN items[1]
  ELSE items[1] \o sep \o Join(Tail(items), sep)

\* str(cell) if cell else '' -- a missing or empty cell is written empty.
CellText(cell) == IF Truthy(cell) THEN cell ELSE ""

\* '\t'.join(str(cell) if cell else '' for cell in row) + '\n'
RowLine(row) == Join([i \in 1..Len(row) |-> CellText(row[i])], "\t") \o "\n"

\* The writes of the combined pdfplumber tables file: per table a header,
\* then one line per row.
RECURSIVE TableWrites(_, _)
TableWrites(tables, i) ==
  IF i > Len(tables) THEN <<>>
  ELSE <<"\n=== Table " \o ToString(i) \o " (pdfplumber) ===\n">>
       \o [r \in 1..Len(tables[i]) |-> RowLine(tables[i][r])]
       \o TableWrites(tables, i + 1)

\* table.to_csv(path, index=False): the header line, then one line per row.
ToCsv(frame) ==
  <<Join(frame.columns, ",") \o "\n">>
  \o [r \in 1..Len(frame.rows) |-> Join(frame.rows[r], ",") \o "\n"]

\* The keys of the metadata mapping, in the order the code inserts them.
MetadataKeys == <<"num_pages", "title", "author", "subject", "creator",
                  "producer", "creation_date">>

\* pdf_reader.metadata.get(key, 'N/A') if pdf_reader.metadata else 'N/A'
InfoGet(info, key) ==
  IF info.present
  THEN (IF key \in DOMAIN info.fields THEN info.fields[key] ELSE "N/A")
  ELSE "N/A"

\* The value of the i-th metadata field: len(pdf_reader.pages), then the six
\* descriptive fields.
MetadataValue(d, i) == IF i = 1 THEN Len(d.pages) ELSE InfoGet(d.info, InfoKeys[i - 1])

\* Where reading the metadata may fail: 0 is the open/parse of the document,
\* i in 1..7 the evaluation of the i-th field, NoFailure none of them.
NoFailure == Len(MetadataKeys) + 1
FailurePoints == 0..NoFailure

\* A variant that stores each field as soon as it is read.
GetPdfMetadataFieldwise(av, d, failAt) ==
  IF ~av.pypdf2 THEN <<>>
  ELSE [i \in 1..(IF failAt = 0 THEN 0 ELSE failAt - 1) |->
          [key |-> MetadataKeys[i], value |-> MetadataValue(d, i)]]

\* get_pdf_metadata: the mapping as the ordered sequence of its items.  The
\* seven items are evaluated first and stored by one update(); a failure at any
\* point is caught and leaves the mapping empty.
GetPdfMetadata(av, d, failAt) ==
  IF ~av.pypdf2 THEN <<>>
  ELSE IF failAt # NoFailure THEN <<>>
  ELSE [i \in 1..Len(MetadataKeys) |->
          [key |-> MetadataKeys[i], value |-> MetadataValue(d, i)]]

\* f"{key}: {value}\n" -- the page count is a number, the other values strings.
MetadataLine(item) ==
  item.key \o ": "
  \o (IF item.key = "num_pages" THEN ToString(item.value) ELSE item.value) \o "\n"

MetadataWrites(md) == [i \in 1..Len(md) |-> MetadataLine(md[i])]

\* The six keys of the result of extract_all_data and the value each starts with.
ResultKeys == {"metadata", "text_pypdf2", "text_pdfplumber", "text_ocr",
               "tables_pdfplumber", "tables_tabula"}
TextKeys == {"text_pypdf2", "text_pdfplumber", "text_ocr"}
TableKeys == {"tables_pdfplumber", "tables_tabula"}

\* A variant that leaves the fields of the backends to the assignments below.
InitialResultsLazy(md) == [k \in {"metadata"} |-> md]

\* results = {'metadata': ..., 'text_pypdf2': '', ..., 'tables_tabula': []}
InitialResults(md) ==
  [k \in ResultKeys |->
     IF k = "metadata" THEN md ELSE IF k \in TextKeys THEN "" ELSE <<>>]

\* results[key] = value
Put(d, key, value) ==
  [k \in DOMAIN d \cup {key} |-> IF k = key THEN value ELSE d[k]]

\* results.get(key): the value, or None for a missing key.
DictGet(d, key) == IF key \in DOMAIN d THEN d[key] ELSE PyNone

\* The name of a file in the output directory; base_name is pdf_path.stem.
TextFileName(base, m) == base \o "_" \o m \o "_text.txt"
TablesFileName(base) == base \o "_pdfplumber_tables.txt"
TabulaFileName(base, i) == base \o "_tabula_table_" \o ToString(i) \o ".csv"
MetadataFileName(base) == base \o "_metadata.txt"

\* for method in ['pypdf2', 'pdfplumber', 'ocr']
SaveMethods == <<"pypdf2", "pdfplumber", "ocr">>

\* All tables tabula.read_pdf finds, in page order.
RECURSIVE TabulaTables(_, _)
TabulaTables(pages, i) ==
  IF i > Len(pages) THEN <<>> ELSE pages[i].frames \o TabulaTables(pages, i + 1)

\* -------------------------------------------------------------------- state
VARIABLES
  avail,       \* PYPDF2_AVAILABLE, PDFPLUMBER_AVAILABLE, TABULA_AVAILABLE, OCR_AVAILABLE
  doc,         \* the document at pdf_path: its pages and information dictionary
  exists,      \* whether pdf_path exists
  entry,       \* "main": a run of main(); "api": a client's direct call of one extractor
  method,      \* args.method, or the name of the extractor the client calls
  use_ocr,     \* args.use_ocr
  output_dir,  \* args.output_dir
  dirs,        \* the directories that exist
  files,       \* the files of the output directory: name -> the writes made to it
  pc,          \* the position in main(), extract_all_data() or save_results()
  frame,       \* the running extractor call: its position, loop index and local value
  results,     \* the local `results` of extract_all_data
  returned,    \* what extract_all_data returned
  retval,      \* what a directly called extractor returned
  saveArg,     \* the `results` parameter of save_results
  saveIdx,     \* the loop index in save_results
  opens,       \* how many times the document was opened
  caught,      \* the functions whose except clause swallowed a failure
  faults,      \* how many failures have happened
  error,       \* the kind of the exception that left the extractor class, or ""
  outcome,     \* "running", "exit0", "exit1", or for a client "returned" / "raised"
  trace        \* the calls begun and ended, in order

inputs == <<avail, doc, exists, entry, method, use_ocr, output_dir>>
vars == <<avail, doc, exists, entry, method, use_ocr, output_dir, dirs, files, pc,
          frame, results, returned, retval, saveArg, saveIdx, opens, caught, faults,
          error, outcome, trace>>

Backends == {"pypdf2", "pdfplumber", "tabula", "ocr"}

\* self.pdf_path = Path(pdf_path); base_name = self.pdf_path.stem
PdfPath == [stem |-> "sample", suffix |-> ".pdf"]
BaseName == PdfPath.stem

NoFrame == [fn |-> "", at |-> "", page |-> 0, acc |-> "", failed |-> "",
            key |-> "", cont |-> ""]
EmptyDict == [k \in {} |-> ""]

\* The directories that may exist when the run starts: neither "a" nor "a/b",
\* "a" alone, or both.
DirSets == {{}, {DirA}, {DirA, DirAB}}

Init ==
  /\ avail \in [Backends -> BOOLEAN]
  /\ doc \in Documents
  /\ exists \in BOOLEAN
  /\ \/ /\ entry = "main"
        /\ method \in MethodChoices
        /\ use_ocr \in BOOLEAN
        /\ output_dir \in OutputDirs
        /\ dirs \in IF method = "all" /\ OutputDirTruthy(output_dir) THEN DirSets ELSE {{}}
     \/ /\ entry = "api"
        /\ method \in ExtractorNames
        /\ use_ocr = FALSE
        /\ output_dir = NoOutputDir
        /\ dirs = {}
  /\ files = EmptyDict
  /\ pc = "construct"
  /\ frame = NoFrame
  /\ results = EmptyDict
  /\ returned = EmptyDict
  /\ retval = ""
  /\ saveArg = EmptyDict
  /\ saveIdx = 0
  /\ opens = 0
  /\ caught = {}
  /\ faults = 0
  /\ error = ""
  /\ outcome = "running"
  /\ trace = <<>>

\* Whether the step may succeed (TRUE) or fail (FALSE).
Outcomes == IF faults < MaxFaults THEN BOOLEAN ELSE {TRUE}
Count(ok) == faults' = IF ok THEN faults ELSE faults + 1

\* One entry of the trace.
Event(ev, what) == ev \o " " \o what

\* A variant in which main() reports the exception and ends normally.
RaiseExitZero(kind) ==
  /\ error' = kind
  /\ pc' = "done"
  /\ frame' = NoFrame
  /\ outcome' = IF entry = "main" THEN "exit0" ELSE "raised"
  /\ trace' = Append(trace, Event("raise", kind))

\* An exception leaves the extractor class.  main() catches it, prints it and
\* exits with status 1 (except Exception ... sys.exit(1)); a client receives it.
Raise(kind) ==
  /\ error' = kind
  /\ pc' = "done"
  /\ frame' = NoFrame
  /\ outcome' = IF entry = "main" THEN "exit1" ELSE "raised"
  /\ trace' = Append(trace, Event("raise", kind))

\* A call of extractor fn; its value goes to results[key] and control to cont.
Call(fn, key, cont) ==
  /\ frame' = [NoFrame EXCEPT !.fn = fn, !.at = "entry", !.key = key, !.cont = cont]
  /\ trace' = Append(trace, Event("begin", fn))

\* PDFExtractor.__init__
Construct ==
  /\ pc = "construct"
  /\ IF ~exists
     THEN /\ Raise("FileNotFoundError")
          /\ UNCHANGED <<inputs, dirs, files, results, returned, retval, saveArg,
                         saveIdx, opens, caught, faults>>
     ELSE /\ pc' = "dispatch"
          /\ UNCHANGED <<inputs, dirs, files, frame, results, returned, retval,
                         saveArg, saveIdx, opens, caught, faults, error, outcome, trace>>

\* main(): the choice of the method; a client's call of one extractor.
Dispatch ==
  /\ pc = "dispatch"
  /\ IF entry = "main" /\ method = "all"
     THEN /\ pc' = "all_metadata"
          /\ UNCHANGED <<frame, trace>>
     ELSE /\ pc' = "call"
          /\ Call(MethodExtractor(method), "", IF entry = "main" THEN "print" ELSE "done")
  /\ UNCHANGED <<inputs, dirs, files, results, returned, retval, saveArg, saveIdx,
                 opens, caught, faults, error, outcome>>

\* ------------------------------------------------------------- extractors
\* What an extractor leaves alone.
ExtractorFrame == <<inputs, dirs, files, results, returned, retval, saveArg, saveIdx>>

\* A variant with the availability check inside the try block.
UnavailableSwallowed ==
  /\ frame' = [frame EXCEPT !.at = "ret", !.failed = "open",
                            !.acc = IF frame.key \in {"tables_pdfplumber", "tables_tabula"}
                                       \/ frame.fn \in {"extract_tables_pdfplumber",
                                                         "extract_tables_tabula"}
                                    THEN <<>> ELSE ""]
  /\ caught' = caught \cup {frame.fn}
  /\ UNCHANGED <<ExtractorFrame, pc, opens, faults, error, outcome, trace>>

\* `if not X_AVAILABLE: raise ImportError(...)`, before the try block.
Unavailable ==
  /\ Raise("ImportError")
  /\ UNCHANGED <<ExtractorFrame, opens, caught, faults>>

\* The document is opened (or handed to the backend): the loop starts, or the
\* failure is caught and the extractor returns its initial value.
Opened(ok, initial) ==
  /\ opens' = opens + 1
  /\ frame' = IF ok THEN [frame EXCEPT !.at = "loop", !.acc = initial]
              ELSE [frame EXCEPT !.at = "ret", !.acc = initial, !.failed = "open"]
  /\ caught' = IF ok THEN caught ELSE caught \cup {frame.fn}
  /\ Count(ok)
  /\ UNCHANGED <<ExtractorFrame, pc, error, outcome, trace>>

\* A variant without the except clause around the loop.
IteratedPropagating(ok, acc) ==
  IF ok
  THEN /\ frame' = [frame EXCEPT !.acc = acc, !.page = @ + 1]
       /\ UNCHANGED <<ExtractorFrame, pc, opens, caught, faults, error, outcome, trace>>
  ELSE /\ Raise("Exception")
       /\ Count(ok)
       /\ UNCHANGED <<ExtractorFrame, opens, caught>>

\* One iteration of the page loop ended: normally with the local value acc, or
\* by an exception, caught with the local value acc.
Iterated(ok, acc) ==
  /\ frame' = IF ok THEN [frame EXCEPT !.acc = acc, !.page = @ + 1]
              ELSE [frame EXCEPT !.acc = acc, !.at = "ret", !.failed = "page"]
  /\ caught' = IF ok THEN caught ELSE caught \cup {frame.fn}
  /\ Count(ok)
  /\ UNCHANGED <<ExtractorFrame, pc, opens, error, outcome, trace>>

\* The loop is over: the with block and the try block end.
LoopEnd ==
  /\ frame' = [frame EXCEPT !.at = "ret"]
  /\ UNCHANGED <<ExtractorFrame, pc, opens, caught, faults, error, outcome, trace>>

\* A variant numbering the pages from 0.
ExtractTextPypdf2PageZeroBased(ok) ==
  LET k == frame.page + 1
      text == frame.acc \o PageMarker(k - 1)
  IN  Iterated(ok, IF ok THEN text \o doc.pages[k].text ELSE text)

\* extract_text_pypdf2: the availability check and the open of the document.
ExtractTextPypdf2Begin ==
  /\ frame.fn = "extract_text_pypdf2" /\ frame.at = "entry"
  /\ IF ~avail["pypdf2"] THEN Unavailable
     ELSE \E ok \in Outcomes : Opened(ok, "")

\* extract_text_pypdf2: one page -- the marker, then page.extract_text().
ExtractTextPypdf2Page(ok) ==
  LET k == frame.page + 1
      text == frame.acc \o PageMarker(k)
  IN  Iterated(ok, IF ok THEN text \o doc.pages[k].text ELSE text)

ExtractTextPypdf2Loop ==
  /\ frame.fn = "extract_text_pypdf2" /\ frame.at = "loop"
  /\ IF frame.page < Len(doc.pages)
     THEN \E ok \in Outcomes : ExtractTextPypdf2Page(ok)
     ELSE LoopEnd

\* extract_text_pdfplumber: the availability check and pdfplumber.open().
ExtractTextPdfplumberBegin ==
  /\ frame.fn = "extract_text_pdfplumber" /\ frame.at = "entry"
  /\ IF ~avail["pdfplumber"] THEN Unavailable
     ELSE \E ok \in Outcomes : Opened(ok, "")

\* extract_text_pdfplumber: one page -- the marker, then page.extract_text(),
\* appended only `if page_text`.
ExtractTextPdfplumberPage(ok) ==
  LET k == frame.page + 1
      text == frame.acc \o PageMarker(k)
      page_text == doc.pages[k].plumb
  IN  Iterated(ok, IF ok /\ Truthy(page_text) THEN text \o page_text ELSE text)

ExtractTextPdfplumberLoop ==
  /\ frame.fn = "extract_text_pdfplumber" /\ frame.at = "loop"
  /\ IF frame.page < Len(doc.pages)
     THEN \E ok \in Outcomes : ExtractTextPdfplumberPage(ok)
     ELSE LoopEnd

\* extract_tables_pdfplumber: the availability check and pdfplumber.open().
ExtractTablesPdfplumberBegin ==
  /\ frame.fn = "extract_tables_pdfplumber" /\ frame.at = "entry"
  /\ IF ~avail["pdfplumber"] THEN Unavailable
     ELSE \E ok \in Outcomes : Opened(ok, <<>>)

\* extract_tables_pdfplumber: one page -- page.extract_tables(), and
\* all_tables.extend(tables) `if tables`.
ExtractTablesPdfplumberPage(ok) ==
  LET tables == doc.pages[frame.page + 1].tables
  IN  Iterated(ok, IF ok /\ tables # <<>> THEN frame.acc \o tables ELSE frame.acc)

ExtractTablesPdfplumberLoop ==
  /\ frame.fn = "extract_tables_pdfplumber" /\ frame.at = "loop"
  /\ IF frame.page < Len(doc.pages)
     THEN \E ok \in Outcomes : ExtractTablesPdfplumberPage(ok)
     ELSE LoopEnd

\* extract_tables_tabula: the availability check, then one tabula.read_pdf()
\* call for all pages; a failure is caught and leaves tables = [].
ExtractTablesTabula ==
  /\ frame.fn = "extract_tables_tabula" /\ frame.at = "entry"
  /\ IF ~avail["tabula"] THEN Unavailable
     ELSE \E ok \in Outcomes :
            /\ opens' = opens + 1
            /\ frame' = IF ok
                        THEN [frame EXCEPT !.at = "ret", !.acc = TabulaTables(doc.pages, 1),
                                           !.page = Len(doc.pages)]
                        ELSE [frame EXCEPT !.at = "ret", !.acc = <<>>, !.failed = "open"]
            /\ caught' = IF ok THEN caught ELSE caught \cup {frame.fn}
            /\ Count(ok)
            /\ UNCHANGED <<ExtractorFrame, pc, error, outcome, trace>>

\* extract_text_ocr: the availability check and convert_from_path(), which
\* renders every page to an image before the loop.
ExtractTextOcrBegin ==
  /\ frame.fn = "extract_text_ocr" /\ frame.at = "entry"
  /\ IF ~avail["ocr"] THEN Unavailable
     ELSE \E ok \in Outcomes : Opened(ok, "")

\* extract_text_ocr: one image -- the marker, then pytesseract.image_to_string().
ExtractTextOcrPage(ok) ==
  LET k == frame.page + 1
      text == frame.acc \o OcrMarker(k)
  IN  Iterated(ok, IF ok THEN text \o doc.pages[k].ocr ELSE text)

ExtractTextOcrLoop ==
  /\ frame.fn = "extract_text_ocr" /\ frame.at = "loop"
  /\ IF frame.page < Len(doc.pages)
     THEN \E ok \in Outcomes : ExtractTextOcrPage(ok)
     ELSE LoopEnd

\* `return text` / `return tables`: to extract_all_data, which stores the value
\* under its key, or to main() or the client.
ExtractorReturn ==
  /\ frame.fn # "" /\ frame.at = "ret"
  /\ trace' = Append(trace, Event("end", frame.fn))
  /\ pc' = frame.cont
  /\ frame' = NoFrame
  /\ IF frame.key # ""
     THEN results' = Put(results, frame.key, frame.acc) /\ UNCHANGED retval
     ELSE retval' = frame.acc /\ UNCHANGED results
  /\ outcome' = IF frame.cont = "done" THEN "returned" ELSE outcome
  /\ UNCHANGED <<inputs, dirs, files, returned, saveArg, saveIdx, opens, caught,
                 faults, error>>

\* -------------------------------------------------------- extract_all_data
\* What a step of extract_all_data leaves alone besides pc, frame and trace.
AllFrame == <<inputs, dirs, files, returned, retval, saveArg, saveIdx, error, outcome>>

\* Where reading the metadata may fail in this run.
MetadataOutcomes == IF faults < MaxFaults THEN FailurePoints ELSE {NoFailure}

\* `if <condition>: results[key] = self.<fn>()`, then on to the next statement.
CallIf(condition, fn, key, cont, skip) ==
  /\ frame = NoFrame
  /\ IF condition
     THEN Call(fn, key, cont) /\ UNCHANGED pc
     ELSE pc' = skip /\ UNCHANGED <<frame, trace>>
  /\ UNCHANGED <<AllFrame, results, opens, caught, faults>>

\* The results dictionary is built: get_pdf_metadata() runs, then the six keys
\* are set.
AllMetadata ==
  /\ pc = "all_metadata"
  /\ \E failAt \in MetadataOutcomes :
       /\ results' = InitialResults(GetPdfMetadata(avail, doc, failAt))
       /\ opens' = IF avail["pypdf2"] THEN opens + 1 ELSE opens
       /\ caught' = IF avail["pypdf2"] /\ failAt # NoFailure
                    THEN caught \cup {"get_pdf_metadata"} ELSE caught
       /\ Count(~avail["pypdf2"] \/ failAt = NoFailure)
  /\ trace' = trace \o <<Event("begin", "get_pdf_metadata"), Event("end", "get_pdf_metadata")>>
  /\ pc' = "all_pypdf2"
  /\ UNCHANGED <<AllFrame, frame>>

\* A variant that runs OCR whenever it is asked for.
OcrWantedIgnoringBackend == use_ocr

\* `if use_ocr and OCR_AVAILABLE`
OcrWanted == use_ocr /\ avail["ocr"]

\* `if PYPDF2_AVAILABLE: results['text_pypdf2'] = self.extract_text_pypdf2()`
AllTextPypdf2 ==
  /\ pc = "all_pypdf2"
  /\ CallIf(avail["pypdf2"], "extract_text_pypdf2", "text_pypdf2",
            "all_pdfplumber", "all_pdfplumber")

\* `if PDFPLUMBER_AVAILABLE:` -- the text first ...
AllTextPdfplumber ==
  /\ pc = "all_pdfplumber"
  /\ CallIf(avail["pdfplumber"], "extract_text_pdfplumber", "text_pdfplumber",
            "all_pdfplumber_tables", "all_tabula")

\* ... then, under the same condition, the tables.
AllTablesPdfplumber ==
  /\ pc = "all_pdfplumber_tables"
  /\ CallIf(TRUE, "extract_tables_pdfplumber", "tables_pdfplumber",
            "all_tabula", "all_tabula")

\* A variant that goes on to the save step, leaving OCR out.
AllTablesTabulaThenSave ==
  /\ pc = "all_tabula"
  /\ CallIf(avail["tabula"], "extract_tables_tabula", "tables_tabula",
            "all_save", "all_save")

\* `if TABULA_AVAILABLE: results['tables_tabula'] = self.extract_tables_tabula()`
AllTablesTabula ==
  /\ pc = "all_tabula"
  /\ CallIf(avail["tabula"], "extract_tables_tabula", "tables_tabula",
            "all_ocr", "all_ocr")

\* `if use_ocr and OCR_AVAILABLE: results['text_ocr'] = self.extract_text_ocr()`
AllTextOcr ==
  /\ pc = "all_ocr"
  /\ CallIf(OcrWanted, "extract_text_ocr", "text_ocr", "all_save", "all_save")

\* `if output_dir:`
SaveWanted == OutputDirTruthy(output_dir)

\* `if output_dir: self.save_results(results, output_dir)`
AllSave ==
  /\ pc = "all_save" /\ frame = NoFrame
  /\ IF SaveWanted
     THEN /\ saveArg' = results
          /\ pc' = "save_mkdir"
          /\ trace' = Append(trace, Event("begin", "save_results"))
     ELSE /\ pc' = "all_return"
          /\ UNCHANGED <<saveArg, trace>>
  /\ UNCHANGED <<inputs, dirs, files, frame, results, returned, retval, saveIdx,
                 opens, caught, faults, error, outcome>>

\* `return results`
AllReturn ==
  /\ pc = "all_return"
  /\ returned' = results
  /\ pc' = "summary"
  /\ trace' = Append(trace, Event("end", "extract_all_data"))
  /\ UNCHANGED <<inputs, dirs, files, frame, results, retval, saveArg, saveIdx,
                 opens, caught, faults, error, outcome>>

\* ------------------------------------------------------------ save_results
\* What a step of save_results leaves alone.
SaveFrame == <<inputs, results, returned, retval, saveArg, opens, caught>>

\* output_path.mkdir(exist_ok=True): an existing directory is left as it is; a
\* missing one is created when its parent exists, and fails otherwise.
Mkdir(ds, path) ==
  IF DirExists(ds, path) THEN [ok |-> TRUE, dirs |-> ds, err |-> ""]
  ELSE IF ~DirExists(ds, Parent(path))
       THEN [ok |-> FALSE, dirs |-> ds, err |-> "FileNotFoundError"]
       ELSE [ok |-> TRUE, dirs |-> ds \cup {path}, err |-> ""]

\* with open(output_path / name, 'w') as f: the writes `content`, then on.
\* open() fails when the directory is missing or the file system refuses.
WriteFile(name, content, ok, nextPc, nextIdx) ==
  IF ~ok \/ ~DirExists(dirs, output_dir.path)
  THEN /\ Raise(IF ~ok THEN "OSError" ELSE "FileNotFoundError")
       /\ Count(ok)
       /\ UNCHANGED <<SaveFrame, dirs, files, saveIdx>>
  ELSE /\ files' = Put(files, name, content)
       /\ trace' = Append(trace, Event("write", name))
       /\ pc' = nextPc
       /\ saveIdx' = nextIdx
       /\ UNCHANGED <<SaveFrame, dirs, frame, faults, error, outcome>>

\* Nothing to write at this step.
SkipWrite(nextPc, nextIdx) ==
  /\ pc' = nextPc
  /\ saveIdx' = nextIdx
  /\ UNCHANGED <<SaveFrame, dirs, files, frame, faults, error, outcome, trace>>

\* output_path = Path(output_dir); output_path.mkdir(exist_ok=True)
SaveMkdir ==
  /\ pc = "save_mkdir"
  /\ \E ok \in Outcomes :
       LET made == Mkdir(dirs, output_dir.path)
       IN  IF ~ok \/ ~made.ok
           THEN /\ Raise(IF ~ok THEN "OSError" ELSE made.err)
                /\ Count(ok)
                /\ UNCHANGED <<SaveFrame, dirs, files, saveIdx>>
           ELSE /\ dirs' = made.dirs
                /\ trace' = Append(trace, Event("mkdir", "output_dir"))
                /\ pc' = "save_text"
                /\ saveIdx' = 1
                /\ UNCHANGED <<SaveFrame, files, frame, faults, error, outcome>>

\* A variant that writes every text file, empty or not.
TextWantedAlways(text) == TRUE

\* `if results.get(text_key):`
TextWanted(text) == Truthy(text)

\* for method in ['pypdf2', 'pdfplumber', 'ocr']: the text file, if any.
SaveText ==
  /\ pc = "save_text"
  /\ IF saveIdx > Len(SaveMethods)
     THEN SkipWrite("save_tables_pdfplumber", 0)
     ELSE LET m == SaveMethods[saveIdx]
              text == DictGet(saveArg, "text_" \o m)
          IN  IF TextWanted(text)
              THEN \E ok \in Outcomes :
                     WriteFile(TextFileName(BaseName, m), <<text>>, ok,
                               "save_text", saveIdx + 1)
              ELSE SkipWrite("save_text", saveIdx + 1)

\* `if results['tables_pdfplumber']:` the combined tables file.
SaveTablesPdfplumber ==
  /\ pc = "save_tables_pdfplumber"
  /\ IF "tables_pdfplumber" \notin DOMAIN saveArg
     THEN /\ Raise("KeyError")
          /\ UNCHANGED <<SaveFrame, dirs, files, saveIdx, faults>>
     ELSE IF saveArg["tables_pdfplumber"] # <<>>
          THEN \E ok \in Outcomes :
                 WriteFile(TablesFileName(BaseName),
                           TableWrites(saveArg["tables_pdfplumber"], 1), ok,
                           "save_tables_tabula", 1)
          ELSE SkipWrite("save_tables_tabula", 1)

\* `if results['tables_tabula']:` one csv file per table.
SaveTablesTabula ==
  /\ pc = "save_tables_tabula"
  /\ IF "tables_tabula" \notin DOMAIN saveArg
     THEN /\ Raise("KeyError")
          /\ UNCHANGED <<SaveFrame, dirs, files, saveIdx, faults>>
     ELSE IF saveIdx > Len(saveArg["tables_tabula"])
          THEN SkipWrite("save_metadata", 0)
          ELSE \E ok \in Outcomes :
                 WriteFile(TabulaFileName(BaseName, saveIdx),
                           ToCsv(saveArg["tables_tabula"][saveIdx]), ok,
                           "save_tables_tabula", saveIdx + 1)

\* The metadata file: one line per item of results['metadata'].
SaveMetadata ==
  /\ pc = "save_metadata"
  /\ \E ok \in Outcomes :
       WriteFile(MetadataFileName(BaseName), MetadataWrites(saveArg["metadata"]),
                 ok, "save_end", 0)

\* save_results returns to extract_all_data.
SaveEnd ==
  /\ pc = "save_end"
  /\ pc' = "all_return"
  /\ trace' = Append(trace, Event("end", "save_results"))
  /\ UNCHANGED <<SaveFrame, dirs, files, saveIdx, frame, faults, error, outcome>>

\* ------------------------------------------------------------------ main()
\* The summary is printed and main() returns: exit status 0.
MainSummary ==
  /\ pc = "summary"
  /\ pc' = "done"
  /\ outcome' = "exit0"
  /\ UNCHANGED <<inputs, dirs, files, frame, results, returned, retval, saveArg,
                 saveIdx, opens, caught, faults, error, trace>>

\* The text or the tables of the single method are printed: exit status 0.
MainPrint ==
  /\ pc = "print"
  /\ pc' = "done"
  /\ outcome' = "exit0"
  /\ UNCHANGED <<inputs, dirs, files, frame, results, returned, retval, saveArg,
                 saveIdx, opens, caught, faults, error, trace>>

Next ==
  \/ Construct
  \/ Dispatch
  \/ ExtractTextPypdf2Begin
  \/ ExtractTextPypdf2Loop
  \/ ExtractTextPdfplumberBegin
  \/ ExtractTextPdfplumberLoop
  \/ ExtractTablesPdfplumberBegin
  \/ ExtractTablesPdfplumberLoop
  \/ ExtractTablesTabula
  \/ ExtractTextOcrBegin
  \/ ExtractTextOcrLoop
  \/ ExtractorReturn
  \/ AllMetadata
  \/ AllTextPypdf2
  \/ AllTextPdfplumber
  \/ AllTablesPdfplumber
  \/ AllTablesTabula
  \/ AllTextOcr
  \/ AllSave
  \/ AllReturn
  \/ SaveMkdir
  \/ SaveText
  \/ SaveTablesPdfplumber
  \/ SaveTablesTabula
  \/ SaveMetadata
  \/ SaveEnd
  \/ MainSummary
  \/ MainPrint

Spec == Init /\ [][Next]_vars

\* ------------------------------------------------------------- properties
\* Whether the trace holds the begin / the end of a call.
Logged(event) == \E i \in 1..Len(trace) : trace[i] = event
Begun(what) == LET event == "begin " \o what IN Logged(event)
Ended(what) == LET event == "end " \o what IN Logged(event)

\* extract_all_data has returned its result.
AllReturned == Logged("end extract_all_data")

TextExtractors == {"extract_text_pypdf2", "extract_text_pdfplumber", "extract_text_ocr"}

\* C1: whatever the availability flags, use_ocr and the failures, the mapping
\* extract_all_data returns has exactly the six keys metadata, text_pypdf2,
\* text_pdfplumber, text_ocr, tables_pdfplumber and tables_tabula, and the
\* field of every unavailable backend holds its default: the empty string for
\* a text field, the empty list for a table field.
C1_AllSixKeys ==
  AllReturned =>
    /\ DOMAIN returned = ResultKeys
    /\ ~avail["pypdf2"] => returned["text_pypdf2"] = ""
    /\ ~avail["pdfplumber"] =>
         returned["text_pdfplumber"] = "" /\ returned["tables_pdfplumber"] = <<>>
    /\ ~avail["tabula"] => returned["tables_tabula"] = <<>>
    /\ ~avail["ocr"] => returned["text_ocr"] = ""

\* A result returned with two backends missing and a failure swallowed in a
\* third.
C1_Witness ==
  /\ AllReturned
  /\ ~avail["tabula"] /\ ~avail["pdfplumber"] /\ avail["pypdf2"]
  /\ "extract_text_pypdf2" \in caught
  /\ Len(doc.pages) = MaxPages

\* C2: in extract_all_data the OCR extractor is called only when use_ocr is
\* true and the OCR backend is available; with use_ocr false the returned
\* text_ocr is empty whatever the availability, and with use_ocr true and the
\* backend unavailable text_ocr is empty and no error is raised.
C2_OcrOnlyWhenAskedAndAvailable ==
  (entry = "main" /\ method = "all") =>
    /\ Begun("extract_text_ocr") => (use_ocr /\ avail["ocr"])
    /\ (AllReturned /\ ~use_ocr) => returned["text_ocr"] = ""
    /\ (AllReturned /\ use_ocr /\ ~avail["ocr"]) => returned["text_ocr"] = ""
    /\ (use_ocr /\ ~avail["ocr"]) => error # "ImportError"
    /\ (exists /\ use_ocr /\ ~avail["ocr"] /\ ~SaveWanted /\ pc = "done") =>
         outcome = "exit0"

\* OCR asked for on a document with pages, without the OCR backend: the run
\* has ended normally.
C2_Witness ==
  /\ entry = "main" /\ method = "all" /\ pc = "done" /\ AllReturned
  /\ use_ocr /\ ~avail["ocr"]
  /\ Len(doc.pages) > 0
  /\ returned["text_ocr"] = ""

\* The marker the specification states for every text extractor, with the line
\* breaks the code puts around it.
StatedMarker(k) == "\n--- Page " \o ToString(k) \o " ---\n"

\* The marker of the OCR text.
StatedOcrMarker(k) == "\n--- Page " \o ToString(k) \o " (OCR) ---\n"

\* The text of a page as a text extractor appends it: nothing when the page
\* yields no text.
StatedPageText(fn, p) ==
  CASE fn = "extract_text_pypdf2" -> p.text
    [] fn = "extract_text_pdfplumber" -> (IF p.plumb = PyNone THEN "" ELSE p.plumb)
    [] fn = "extract_text_ocr" -> p.ocr

\* Pages 1..n, each as its marker followed by its text.
RECURSIVE StatedText(_, _, _, _)
StatedText(Marker(_), fn, pages, n) ==
  IF n = 0 THEN ""
  ELSE StatedText(Marker, fn, pages, n - 1) \o Marker(n) \o StatedPageText(fn, pages[n])

\* The marker each extractor uses.
MarkerOf(fn, k) == IF fn = "extract_text_ocr" THEN StatedOcrMarker(k) ELSE StatedMarker(k)

Enabled(fn) == avail[BackendOf(fn)] /\ (fn = "extract_text_ocr" => use_ocr)

\* The tables pdfplumber finds on pages 1..n.
RECURSIVE TablesUpTo(_, _)
TablesUpTo(pages, n) ==
  IF n = 0 THEN <<>> ELSE TablesUpTo(pages, n - 1) \o pages[n].tables

\* C4: a failure inside a backend never leaves the extractor that owns it: the
\* extractor returns what it accumulated before the failure (the empty list for
\* tabula), and extract_all_data called without an output directory returns
\* its result for every pattern of failures (main() then ends with status 0),
\* every available extractor having run to its end.
C4_FailuresStayInside ==
  /\ (exists /\ entry = "main" /\ method = "all" /\ ~OutputDirTruthy(output_dir)) =>
       /\ error = ""
       /\ pc = "done" => (outcome = "exit0" /\ AllReturned)
  /\ AllReturned =>
       /\ Ended("get_pdf_metadata")
       /\ \A fn \in ExtractorNames : Enabled(fn) => Ended(fn)
       /\ avail["pypdf2"] => returned["text_pypdf2"] # "" \/ Len(doc.pages) = 0
                               \/ "extract_text_pypdf2" \in caught
  /\ caught # {} => error \in {"", "OSError", "FileNotFoundError"}
  /\ (frame.at = "ret" /\ frame.failed # "") =>
       /\ frame.fn = "extract_tables_tabula" => frame.acc = <<>>
       /\ frame.fn = "extract_tables_pdfplumber" =>
            frame.acc = TablesUpTo(doc.pages, frame.page)

\* All backends available, no output directory, two extractors failed, and
\* main() has ended.
C4_Witness ==
  /\ entry = "main" /\ method = "all" /\ pc = "done" /\ outcome = "exit0"
  /\ ~OutputDirTruthy(output_dir)
  /\ \A b \in Backends : avail[b]
  /\ {"extract_text_pypdf2", "extract_tables_tabula"} \subseteq caught
  /\ returned["text_pdfplumber"] # ""

\* The extractor a run calls directly, if any.
Direct == IF entry = "main" /\ method = "all" THEN "" ELSE MethodExtractor(method)

\* C5: a single-method extractor called while its backend is unavailable fails
\* with the backend-unavailable error, raised before the document is opened and
\* not swallowed by the extractor; extract_all_data never calls an extractor
\* whose backend is unavailable and never surfaces that error.
C5_UnavailableBackend ==
  /\ error = "ImportError" =>
       /\ Direct # "" /\ ~avail[BackendOf(Direct)]
       /\ opens = 0 /\ caught = {}
       /\ ~Ended(Direct)
  /\ (Direct # "" /\ exists /\ ~avail[BackendOf(Direct)] /\ pc \notin {"construct", "dispatch"}) =>
       \/ frame.fn = Direct /\ frame.at = "entry"
       \/ pc = "done" /\ error = "ImportError"
            /\ outcome = (IF entry = "main" THEN "exit1" ELSE "raised")
  /\ Direct = "" =>
       /\ error # "ImportError"
       /\ frame.fn # "" => avail[BackendOf(frame.fn)]

\* A client called extract_tables_pdfplumber without pdfplumber and received
\* the error.
C5_Witness ==
  /\ entry = "api" /\ method = "extract_tables_pdfplumber"
  /\ error = "ImportError" /\ outcome = "raised"

\* save_results was entered and did not return.
SaveFailed == Begun("save_results") /\ ~Ended("save_results")

\* C6: a run of main() ends with exit status 1 exactly when an error reaches
\* the top level -- the input path does not exist, a single method is chosen
\* whose backend is unavailable, or writing the results fails -- and with
\* status 0 otherwise, swallowed extractor failures included; when the input
\* path does not exist no extractor and no writer step runs.
C6_ExitCode ==
  (entry = "main" /\ pc = "done") =>
    /\ outcome \in {"exit0", "exit1"}
    /\ outcome = "exit1" <=>
         \/ ~exists
         \/ Direct # "" /\ ~avail[BackendOf(Direct)]
         \/ SaveFailed
    /\ outcome = "exit1" <=> error # ""
    /\ ~exists => (trace = <<"raise FileNotFoundError">> /\ opens = 0
                   /\ files = EmptyDict /\ results = EmptyDict)

\* A full run in which an extractor failure was swallowed ended with status 0.
C6_Witness ==
  /\ entry = "main" /\ method = "all" /\ pc = "done" /\ outcome = "exit0"
  /\ "extract_text_pdfplumber" \in caught
  /\ Ended("save_results")

\* The extractors in the order extract_all_data is to run them.
ExtractionOrder == <<"extract_text_pypdf2", "extract_text_pdfplumber",
                     "extract_tables_pdfplumber", "extract_tables_tabula",
                     "extract_text_ocr">>

\* The calls of a complete extraction: the metadata read, then every enabled
\* extractor, each ending before the next begins.
RECURSIVE ExpectedCalls(_)
ExpectedCalls(i) ==
  IF i > Len(ExtractionOrder) THEN <<>>
  ELSE (IF Enabled(ExtractionOrder[i])
        THEN <<"begin " \o ExtractionOrder[i], "end " \o ExtractionOrder[i]>>
        ELSE <<>>) \o ExpectedCalls(i + 1)

ExpectedExtraction ==
  <<"begin get_pdf_metadata", "end get_pdf_metadata">> \o ExpectedCalls(1)

IsPrefix(a, b) == Len(a) <= Len(b) /\ SubSeq(b, 1, Len(a)) = a

\* C7: in extract_all_data the writer is invoked if and only if an output
\* directory (a non-empty path) is provided, and only after the metadata read
\* and every enabled extractor have finished, in the order PyPDF2 text,
\* pdfplumber text, pdfplumber tables, tabula tables, OCR text, each ending
\* before the next begins; no file is written while an extraction step is
\* pending, and the result passed to the writer is the one returned.
C7_WriteAfterComplete ==
  (exists /\ entry = "main" /\ method = "all") =>
    LET expected == ExpectedExtraction
        saving == Logged("begin save_results")
    IN  /\ IsPrefix(trace, expected) \/ IsPrefix(expected, trace)
        /\ saving =>
             /\ OutputDirTruthy(output_dir)
             /\ IsPrefix(expected \o <<"begin save_results">>, trace)
             /\ frame = NoFrame
             /\ saveArg = results
        /\ ~saving => (files = EmptyDict /\ saveArg = EmptyDict)
        /\ AllReturned =>
             /\ saving <=> OutputDirTruthy(output_dir)
             /\ saving => (Logged("end save_results") /\ saveArg = returned)
             /\ returned = results

\* A run with every extractor enabled has saved and returned.
C7_Witness ==
  /\ entry = "main" /\ method = "all" /\ AllReturned /\ Ended("save_results")
  /\ use_ocr /\ \A b \in Backends : avail[b]
  /\ Len(doc.pages) = MaxPages
  /\ Cardinality(DOMAIN files) > 3

\* The stated file names, for the document "sample.pdf".
StatedTextFile(m) == "sample_" \o m \o "_text.txt"
StatedTabulaFile(i) == "sample_tabula_table_" \o ToString(i) \o ".csv"

\* The files save_results is to write for the result r.
StatedFiles(r) ==
  {StatedTextFile(m) : m \in {x \in {"pypdf2", "pdfplumber", "ocr"} : r["text_" \o x] # ""}}
  \cup (IF r["tables_pdfplumber"] # <<>> THEN {"sample_pdfplumber_tables.txt"} ELSE {})
  \cup {StatedTabulaFile(i) : i \in 1..Len(r["tables_tabula"])}
  \cup {"sample_metadata.txt"}

\* The stated line of a metadata item.
StatedMetadataLine(item) ==
  IF item.key = "num_pages"
  THEN "num_pages: " \o ToString(item.value) \o "\n"
  ELSE item.key \o ": " \o item.value \o "\n"

\* C8: after save_results returns, the files it wrote are exactly one text
\* file per non-empty text field (with that text), the combined pdfplumber
\* tables file if and only if tables_pdfplumber is non-empty, one tabula file
\* per table numbered 1..n, and the metadata file, always, with one
\* "key: value" line per metadata field.
C8_FilesWritten ==
  Ended("save_results") =>
    /\ DOMAIN files = StatedFiles(saveArg)
    /\ \A m \in {"pypdf2", "pdfplumber", "ocr"} :
         saveArg["text_" \o m] # "" => files[StatedTextFile(m)] = <<saveArg["text_" \o m]>>
    /\ LET lines == files["sample_metadata.txt"]
           md == saveArg["metadata"]
       IN  /\ Len(lines) = Len(md)
           /\ \A i \in 1..Len(md) : lines[i] = StatedMetadataLine(md[i])

\* Saved: no PyPDF2 text and no metadata field, but pdfplumber text and two
\* tabula tables.
C8_Witness ==
  /\ Ended("save_results")
  /\ saveArg["text_pypdf2"] = "" /\ saveArg["text_pdfplumber"] # ""
  /\ saveArg["metadata"] = <<>>
  /\ Len(saveArg["tables_tabula"]) = 2
  /\ saveArg["tables_pdfplumber"] = <<>>

\* C9 as stated: whenever save_results is called with an output directory that
\* does not exist, at any nesting depth below an existing directory, the
\* directory is created before any file is written, and an existing directory
\* is not an error: once the directory step is over (the operating system not
\* having refused it), the directory exists, and files are only ever written
\* into an existing directory.
C9_DirectoryCreated ==
  /\ (Begun("save_results") /\ pc # "save_mkdir") =>
       \/ DirExists(dirs, output_dir.path)
       \/ error = "OSError" /\ files = EmptyDict
  /\ files # EmptyDict => DirExists(dirs, output_dir.path)

\* The descriptive metadata keys and the document field each is read from.
StatedInfoKey(key) ==
  CASE key = "title" -> "/Title"
    [] key = "author" -> "/Author"
    [] key = "subject" -> "/Subject"
    [] key = "creator" -> "/Creator"
    [] key = "producer" -> "/Producer"
    [] key = "creation_date" -> "/CreationDate"

\* Whether the document holds the field of a descriptive metadata key.
InDocument(key) == doc.info.present /\ StatedInfoKey(key) \in DOMAIN doc.info.fields

\* C10: get_pdf_metadata never raises; it returns the empty mapping (PyPDF2
\* unavailable, or the read failed) or a mapping with exactly the seven fields
\* num_pages, title, author, subject, creator, producer, creation_date, never
\* a partly filled one; a descriptive field absent from the document has the
\* value "N/A" in the mapping and, after save_results, in its line of the
\* metadata file.
C10_Metadata ==
  /\ (entry = "main" /\ method = "all" /\ exists /\ pc \notin {"construct", "dispatch", "all_metadata"}) =>
       /\ Ended("get_pdf_metadata")
       /\ "metadata" \in DOMAIN results
       /\ error \notin {"Exception", "ImportError"}
  /\ "metadata" \in DOMAIN results =>
       LET md == results["metadata"]
       IN  /\ Len(md) \in {0, 7}
           /\ Len(md) = 0 <=> (~avail["pypdf2"] \/ "get_pdf_metadata" \in caught)
           /\ Len(md) = 7 =>
                /\ [i \in 1..7 |-> md[i].key] =
                     <<"num_pages", "title", "author", "subject", "creator",
                       "producer", "creation_date">>
                /\ md[1].value = Len(doc.pages)
                /\ \A i \in 2..7 :
                     IF InDocument(md[i].key)
                     THEN md[i].value = doc.info.fields[StatedInfoKey(md[i].key)]
                     ELSE md[i].value = "N/A"
  /\ (Ended("save_results") /\ Len(saveArg["metadata"]) = 7) =>
       \A i \in 2..7 :
         LET key == saveArg["metadata"][i].key
         IN  ~InDocument(key) => files["sample_metadata.txt"][i] = key \o ": N/A\n"

\* The metadata of a document that has a title and a producer only was read
\* and saved.
C10_Witness ==
  /\ Ended("save_results")
  /\ Len(saveArg["metadata"]) = 7
  /\ doc.info.present
  /\ files["sample_metadata.txt"][3] = "author: N/A\n"
  /\ files["sample_metadata.txt"][2] = "title: Report\n"

=============================================================================
